---- MODULE Spec2Model ----
(***************************************************************************)
(* The breast-cancer notebook (src/Breast_Cancer_ML_Project.ipynb) as a    *)
(* state machine: one action per statement of its code cells, in the order *)
(* "Run All" executes them.  The notebook's own code is glue; the library  *)
(* calls it makes are modelled by what the libraries compute, in exact     *)
(* rational arithmetic where the libraries use floating point:             *)
(*   train_test_split  ShuffleSplit: n_test = ceil(test_size * n),         *)
(*                     n_train = n - n_test, one seeded permutation, test  *)
(*                     = its first n_test entries, train = the rest        *)
(*   StandardScaler    mean_, population var_, scale_ = sqrt(var_) with a  *)
(*                     zero scale replaced by 1; transform = (x-mean_)/scale_*)
(*   accuracy_score    the mean of (y_true == y_pred)                      *)
(*   max(d, key=d.get) the first key, in insertion order, whose value no   *)
(*                     later key exceeds                                   *)
(* A classifier's fit/predict is opaque: any label vector may come out.    *)
(* A call that is given a random_state is a function of its arguments (the *)
(* memo records the value it took); a call without one draws afresh.       *)
(***************************************************************************)
EXTENDS Integers, Sequences, FiniteSets

VARIABLES
    bundled,              \* environment: the dataset bundled with the library
    memo,                 \* environment: values seeded library calls have taken
    rerun,                \* FALSE in the first run, TRUE in the second
    prev,                 \* <<>>, or <<what the first run ended with>>
    pc,                   \* the statement to execute next
    log,                  \* the library calls made in this run, in order
    stdout,               \* the lines printed in this run
    df,                   \* cell 1
    X_train, X_test, y_train, y_test,            \* cell 3: the split
    scaler, X_train_scaled, X_test_scaled,       \* cell 3: standardisation
    models, i, predictions, accuracies,          \* cell 4: the training loop
    best_model_name, best_model_accuracy,        \* cell 5: selection
    shape,                \* the split's size computation on its own (SizeSpec)
    eval                  \* scoring and selection on their own (EvalSpec)

env_vars    == <<bundled, memo, rerun, prev>>
data_vars   == <<df, X_train, X_test, y_train, y_test>>
scale_vars  == <<scaler, X_train_scaled, X_test_scaled>>
train_vars  == <<models, i, predictions, accuracies>>
select_vars == <<best_model_name, best_model_accuracy>>
vars == <<env_vars, pc, log, stdout, data_vars, scale_vars, train_vars,
          select_vars, shape, eval>>

----------------------------------------------------------------------------
(* Bounds of the model *)

\* Largest number of rows of a bundled dataset.
MaxRows == 3

\* Largest row count the size computation is checked for.
MaxSamples == 600

\* Largest test partition the scoring and the selection are checked for.
MaxTestRows == 3

\* The values a feature takes (one feature column) and the two class labels.
FeatureValues == {0, 1}
Labels == {0, 1}

----------------------------------------------------------------------------
(* Program constants *)

\* random_state=42, given to the split and to each of the three models.
random_state == 42

\* test_size=0.2, as the fraction 1/5.  In double precision ceil(0.2 * n)
\* equals ceil(n / 5) for every n up to 2,000,000 (0.2 * 5k rounds to k).
test_size_num == 1
test_size_den == 5

\* Rows of the canonical dataset load_breast_cancer() returns.
CanonicalRows == 569

----------------------------------------------------------------------------
(* Arithmetic *)

RECURSIVE GCD(_, _)
GCD(a, b) == IF b = 0 THEN a ELSE GCD(b, a % b)

Abs(a) == IF a < 0 THEN -a ELSE a

\* The fraction n/d (d > 0) in lowest terms.
Rat(n, d) ==
    LET g == GCD(Abs(n), d)
    IN  [num |-> n \div g, den |-> d \div g]

RatLess(a, b) == a.num * b.den < b.num * a.den

Zero == Rat(0, 1)
One  == Rat(1, 1)

Ceil(n, d) == (n + d - 1) \div d

RECURSIVE Sum(_)
Sum(s) == IF s = <<>> THEN 0 ELSE Head(s) + Sum(Tail(s))

Vals(a) == [k \in 1..Len(a) |-> a[k].val]

----------------------------------------------------------------------------
(* Cell 1: the data *)

\* The tables load_breast_cancer() may hand over: N rows, one feature, one
\* label.  The table the library ships has 569 rows and 30 features, none of
\* them constant; these small tables stand for it and are a superset of its
\* shapes: they include tables too short to split and tables whose feature
\* is constant on the train partition.  What holds of all of them holds of
\* the shipped table; a property that is about the shipped table's shape
\* names that shape as its hypothesis.
AllDatasets ==
    UNION { [X : [1..n -> FeatureValues], y : [1..n -> Labels]] : n \in 1..MaxRows }

\* Rows k and k+1 of d are in order: by feature value, then by label.
InOrder(d, k) ==
    \/ d.X[k] < d.X[k + 1]
    \/ d.X[k] = d.X[k + 1] /\ d.y[k] <= d.y[k + 1]

\* The datasets of the first run, one per multiset of rows: the split draws
\* every permutation of the rows, so any other dataset is one of these with
\* its rows renumbered.
Datasets == { d \in AllDatasets : \A k \in 1..(Len(d.X) - 1) : InOrder(d, k) }

\* pd.DataFrame(data.data, columns=data.feature_names): the feature rows
\* under the default index 0..N-1; there is no target column yet.
DataFrame(data) ==
    [k \in 1..Len(data.X) |-> [idx |-> k - 1, x |-> data.X[k]]]

\* d["target"] = col: the column is added, row by row in stored order.
SetColumn(d, col) ==
    [k \in 1..Len(d) |-> [idx |-> d[k].idx, x |-> d[k].x, target |-> col[k]]]

\* X = df.drop(columns=["target"]) and y = df["target"]: both keep the index.
DropTarget(d) == [k \in 1..Len(d) |-> [idx |-> d[k].idx, val |-> d[k].x]]
Target(d)     == [k \in 1..Len(d) |-> [idx |-> d[k].idx, val |-> d[k].target]]

----------------------------------------------------------------------------
(* Library calls: seeds, the memo, errors *)

\* A random_state argument: {} is None, {s} is the seed s.
Unseeded  == {}
Seeded(s) == {s}

Call(fn, seed, arg) == [fn |-> fn, seed |-> seed, arg |-> arg]

\* The values a library call may return: the value the same seeded call
\* returned before, when there is one; any candidate otherwise.
Returns(call, candidates) ==
    IF call.seed # Unseeded /\ \E m \in memo : m.call = call
    THEN { m.result : m \in { q \in memo : q.call = call } }
    ELSE candidates

Remember(call, result) ==
    IF call.seed = Unseeded THEN memo
    ELSE memo \cup { [call |-> call, result |-> result] }

\* A logged library call: which call, on which model, what it returned,
\* whether it raised.
Ev(op, name, out) == [op |-> op, name |-> name, out |-> out, raised |-> FALSE]
Raised(op, name)  == [op |-> op, name |-> name, out |-> <<>>, raised |-> TRUE]

\* An exception caught and the failing statement tried again.
OnErrorRetry(at) == at

\* An exception leaves the cell: nothing catches it, the run is over.
OnError(at) == "failed"

----------------------------------------------------------------------------
(* Cell 3: train_test_split *)

\* n_test_of with the product rounded down instead of up.
n_test_floor(n) == (test_size_num * n) \div test_size_den

\* _validate_shuffle_split: the two partition sizes.
n_test_of(n)  == Ceil(test_size_num * n, test_size_den)
n_train_of(n) == n - n_test_of(n)

\* The orders rng.permutation(n) can return: 0..n-1, each once.
RngPermutations(n) ==
    { p \in [1..n -> 0..(n - 1)] : \A a, b \in 1..n : a # b => p[a] # p[b] }

\* ind_train starting one entry early: it takes the last test index too.
ind_train_overlap(p) == SubSeq(p, n_test_of(Len(p)), n_test_of(Len(p)) + n_train_of(Len(p)) - 1)

\* ShuffleSplit._iter_indices: the test indices are the first n_test
\* entries of the permutation, the train indices the n_train after them.
ind_test(p)  == SubSeq(p, 1, n_test_of(Len(p)))

ind_train(p) == SubSeq(p, n_test_of(Len(p)) + 1, n_test_of(Len(p)) + n_train_of(Len(p)))

\* _safe_indexing(a, indices): the rows at the given positions, in that order.
Take(a, ind) == [k \in 1..Len(ind) |-> a[ind[k] + 1]]

\* The split called without random_state.
SplitUnseeded == Unseeded

\* The seed the notebook gives the split.
SplitSeed == Seeded(random_state)

split_call(n) == Call("train_test_split", SplitSeed, <<n>>)

----------------------------------------------------------------------------
(* Cell 3: StandardScaler *)

SumSq(col) == Sum([k \in 1..Len(col) |-> col[k] * col[k]])

\* StandardScaler(): nothing fitted yet.
Unfitted == [fitted |-> FALSE, mean_ |-> Zero, var_ |-> Zero, scale_sq |-> One]

\* x * eps rounded down, for a natural x and eps = 2^-52 (the float64
\* machine epsilon), in two steps of 2^-26.
TimesEps(x) == (x \div (2^26)) \div (2^26)

\* _is_constant_feature(var, mean, n_samples): the column counts as constant
\* when var <= n * eps * var + (n * mean * eps)^2.  With var = a/b and
\* mean = c/d this is a*d*d * (1/eps) * (1/eps - n) <= b * (n*c)^2, decided
\* here by exact integer division.  A zero variance always passes; so does
\* a column of nearly equal values of magnitude about 2^50 or more, which
\* no table of this model holds.
is_constant_feature(var, mean, n) ==
    LET L == var.num * mean.den * mean.den
        Q == var.den * (n * mean.num) * (n * mean.num)
    IN  \/ L = 0
        \/ L > 0 /\ TimesEps(TimesEps(Q \div L) + n) >= 1

\* fit: the column's mean and population variance; scale_ is the square
\* root of the variance, replaced by 1 where the column counts as constant
\* (_handle_zeros_in_scale; scale_sq is scale_ squared).
Fit(col) ==
    LET n == Len(col)
        S == Sum(col)
        v == Rat(n * SumSq(col) - S * S, n * n)
        m == Rat(S, n)
    IN  [fitted   |-> TRUE,
         mean_    |-> m,
         var_     |-> v,
         scale_sq |-> IF is_constant_feature(v, m, n) THEN One ELSE v]

\* Scale without centring: x / scale_.
ScaleUncentred(sc, x) ==
    [num    |-> x * sc.mean_.den,
     den_sq |-> Rat(sc.mean_.den * sc.mean_.den * sc.scale_sq.num, sc.scale_sq.den)]

\* transform of one value: (x - mean_) / scale_, held exactly as
\* num / sqrt(den_sq) with an integer num and a fraction den_sq.
Scale(sc, x) ==
    [num    |-> x * sc.mean_.den - sc.mean_.num,
     den_sq |-> Rat(sc.mean_.den * sc.mean_.den * sc.scale_sq.num, sc.scale_sq.den)]

\* transform: every value scaled by the fitted parameters, which it only reads.
Transform(sc, col) == [k \in 1..Len(col) |-> Scale(sc, col[k])]

\* The scaler refitted on the column it is asked to transform.
AfterRefit(sc, col) == Fit(col)

\* scaler.transform(X_test): the scaler after the call.
AfterTransform(sc, col) == sc

----------------------------------------------------------------------------
(* Cell 4: the models and the accuracy *)

\* The dict literal with its first two items exchanged.
ModelNamesSwapped == <<"Logistic Regression", "Random Forest", "Support Vector Machine">>

\* The keys of the models dict, in the order the dict literal lists them.
ModelNames == <<"Random Forest", "Logistic Regression", "Support Vector Machine">>

\* The random_state each constructor is given.
ModelSeed(name) == Seeded(random_state)

NewModels ==
    [k \in 1..Len(ModelNames) |->
        [name |-> ModelNames[k], random_state |-> ModelSeed(ModelNames[k]),
         fitted |-> FALSE, fit_X |-> <<>>, fit_y |-> <<>>]]

\* model.fit(X, y): the estimator's parameters are a function of (X, y).
Fitted(m, X, y) == [m EXCEPT !.fitted = TRUE, !.fit_X = X, !.fit_y = y]

predict_call(m, X) == Call(m.name, m.random_state, <<m.fit_X, m.fit_y, X>>)

\* accuracy_score with normalize=False: the count of matches, not their share.
accuracy_count(y_true, y_pred) ==
    LET score == [k \in 1..Len(y_true) |-> IF y_true[k] = y_pred[k] THEN 1 ELSE 0]
    IN  Rat(Sum(score), 1)

\* accuracy_score(y_true, y_pred): the mean of the indicator y_true == y_pred.
accuracy_score(y_true, y_pred) ==
    LET score == [k \in 1..Len(y_true) |-> IF y_true[k] = y_pred[k] THEN 1 ELSE 0]
    IN  Rat(Sum(score), Len(y_true))

\* accuracies[name] = accuracy on a dict kept as its items in insertion
\* order: a new key goes last, an old key keeps its place.
SetItem(d, name, value) ==
    IF \E k \in 1..Len(d) : d[k].name = name
    THEN [k \in 1..Len(d) |-> IF d[k].name = name THEN [name |-> name, acc |-> value] ELSE d[k]]
    ELSE Append(d, [name |-> name, acc |-> value])

\* accuracies.get(name)
Get(d, name) == (CHOOSE e \in { d[k] : k \in 1..Len(d) } : e.name = name).acc

----------------------------------------------------------------------------
(* Cell 5: max(accuracies, key=accuracies.get) *)

\* MaxFrom with the running maximum replaced by a key of equal value too.
RECURSIVE MaxFromLast(_, _, _)
MaxFromLast(d, k, best) ==
    IF k > Len(d) THEN best
    ELSE MaxFromLast(d, k + 1,
                     IF RatLess(Get(d, d[k].name), Get(d, best)) THEN best ELSE d[k].name)

\* max over the keys in insertion order: the running maximum is replaced
\* only by a key whose value is strictly greater.
RECURSIVE MaxFrom(_, _, _)
MaxFrom(d, k, best) ==
    IF k > Len(d) THEN best
    ELSE MaxFrom(d, k + 1,
                 IF RatLess(Get(d, best), Get(d, d[k].name)) THEN d[k].name ELSE best)

MaxKey(d) == MaxFrom(d, 2, d[1].name)

----------------------------------------------------------------------------
(* The run *)

InitRun ==
    /\ pc = "load"
    /\ log = <<>>
    /\ stdout = <<>>
    /\ df = <<>>
    /\ X_train = <<>> /\ X_test = <<>> /\ y_train = <<>> /\ y_test = <<>>
    /\ scaler = Unfitted /\ X_train_scaled = <<>> /\ X_test_scaled = <<>>
    /\ models = <<>> /\ i = 0 /\ predictions = <<>> /\ accuracies = <<>>
    /\ best_model_name = "" /\ best_model_accuracy = Zero

NoShape == [n_samples |-> 0, n_train |-> 0, n_test |-> 0, state |-> "idle"]

NoEval ==
    [y_test |-> <<>>, preds |-> <<>>, i |-> 0, accuracies |-> <<>>,
     best_model_name |-> "", best_model_accuracy |-> Zero, pc |-> "idle"]

Init ==
    /\ bundled \in Datasets
    /\ memo = {}
    /\ rerun = FALSE
    /\ prev = <<>>
    /\ InitRun
    /\ shape = NoShape
    /\ eval = NoEval

\* A library call raises: the exception is logged by the kernel and control
\* goes where OnError says; no variable of the notebook is assigned.
Raise(at, name) ==
    /\ pc' = OnError(at)
    /\ log' = Append(log, Raised(at, name))
    /\ UNCHANGED <<env_vars, stdout, data_vars, scale_vars, train_vars, select_vars, shape, eval>>

Out(kind, name, value) == [kind |-> kind, name |-> name, value |-> value]

\* The statements of cell 1 run in order: df is bound as soon as the frame is
\* built, so a later statement that raises leaves it as it then is.

\* import ...; data = load_breast_cancer(); df = pd.DataFrame(data.data, ...)
Load ==
    /\ pc = "load"
    /\ \/ /\ df' = DataFrame(bundled)
          /\ pc' = "target"
          /\ log' = Append(log, Ev("load", "", <<>>))
          /\ UNCHANGED <<env_vars, stdout, X_train, X_test, y_train, y_test,
                         scale_vars, train_vars, select_vars, shape, eval>>
       \/ Raise("load", "")

\* df["target"] = data.target
AssignTarget ==
    /\ pc = "target"
    /\ \/ /\ df' = SetColumn(df, bundled.y)
          /\ pc' = "head"
          /\ log' = Append(log, Ev("target", "", <<>>))
          /\ UNCHANGED <<env_vars, stdout, X_train, X_test, y_train, y_test,
                         scale_vars, train_vars, select_vars, shape, eval>>
       \/ Raise("target", "")

\* df.head(): the first rows are displayed as the cell's value; nothing is
\* assigned and nothing is printed.
ShowHead ==
    /\ pc = "head"
    /\ \/ /\ pc' = "missing"
          /\ log' = Append(log, Ev("head", "", <<>>))
          /\ UNCHANGED <<env_vars, stdout, data_vars, scale_vars, train_vars, select_vars,
                         shape, eval>>
       \/ Raise("head", "")

\* The EDA cell reads df and prints; it assigns nothing the later cells
\* read.  Its statements run in order, so what is printed before a call
\* that raises stays printed.

\* print("Missing values in each column:\n", df.isnull().sum())
MissingValues ==
    /\ pc = "missing"
    /\ \/ /\ pc' = "describe"
          /\ log' = Append(log, Ev("missing", "", <<>>))
          /\ stdout' = Append(stdout, Out("missing", "", Zero))
          /\ UNCHANGED <<env_vars, data_vars, scale_vars, train_vars, select_vars, shape, eval>>
       \/ Raise("missing", "")

\* print("\nSummary statistics:\n", df.describe())
Describe ==
    /\ pc = "describe"
    /\ \/ /\ pc' = "pairplot"
          /\ log' = Append(log, Ev("describe", "", <<>>))
          /\ stdout' = Append(stdout, Out("describe", "", Zero))
          /\ UNCHANGED <<env_vars, data_vars, scale_vars, train_vars, select_vars, shape, eval>>
       \/ Raise("describe", "")

\* sns.pairplot(df, vars=df.columns[:5], hue="target", diag_kind="kde"); plt.show()
\* A figure is rendered, nothing is printed.
Pairplot ==
    /\ pc = "pairplot"
    /\ \/ /\ pc' = "heatmap"
          /\ log' = Append(log, Ev("pairplot", "", <<>>))
          /\ UNCHANGED <<env_vars, stdout, data_vars, scale_vars, train_vars, select_vars,
                         shape, eval>>
       \/ Raise("pairplot", "")

\* plt.figure(...); sns.heatmap(df.corr(), ...); plt.title(...); plt.show()
\* A figure is rendered, nothing is printed.
Heatmap ==
    /\ pc = "heatmap"
    /\ \/ /\ pc' = "split"
          /\ log' = Append(log, Ev("heatmap", "", <<>>))
          /\ UNCHANGED <<env_vars, stdout, data_vars, scale_vars, train_vars, select_vars,
                         shape, eval>>
       \/ Raise("heatmap", "")

\* The split with y cut in its stored order instead of by the shuffled indices.
train_test_split_unaligned(X, y, p) ==
    <<Take(X, ind_train(p)), Take(X, ind_test(p)),
      SubSeq(y, 1, n_train_of(Len(p))), SubSeq(y, n_train_of(Len(p)) + 1, Len(p))>>

\* X_train, X_test, y_train, y_test = train_test_split(X, y, test_size=0.2,
\* random_state=42): X and y are indexed by the same train and test indices.
\* An empty train partition is a ValueError.
train_test_split(X, y, p) ==
    <<Take(X, ind_train(p)), Take(X, ind_test(p)),
      Take(y, ind_train(p)), Take(y, ind_test(p))>>

Split ==
    /\ pc = "split"
    /\ \/ /\ n_train_of(Len(df)) > 0
          /\ \E p \in Returns(split_call(Len(df)), RngPermutations(Len(df))) :
                LET r == train_test_split(DropTarget(df), Target(df), p)
                IN  /\ X_train' = r[1] /\ X_test' = r[2]
                    /\ y_train' = r[3] /\ y_test' = r[4]
                    /\ memo' = Remember(split_call(Len(df)), p)
          /\ pc' = "scaler"
          /\ log' = Append(log, Ev("split", "", <<>>))
          /\ UNCHANGED <<bundled, rerun, prev, stdout, df, scale_vars, train_vars,
                         select_vars, shape, eval>>
       \/ Raise("split", "")

\* scaler = StandardScaler(): a scaler with no parameters yet.
NewScaler ==
    /\ pc = "scaler"
    /\ \/ /\ scaler' = Unfitted
          /\ pc' = "fit_transform"
          /\ log' = Append(log, Ev("scaler", "", <<>>))
          /\ UNCHANGED <<env_vars, stdout, data_vars, X_train_scaled, X_test_scaled,
                         train_vars, select_vars, shape, eval>>
       \/ Raise("scaler", "")

\* X_train_scaled = scaler.fit_transform(X_train): fit(X).transform(X) on the
\* one object.  The call may raise before the parameters are set, or in its
\* transform after they are set; either way X_train_scaled is not assigned.
FitTransform ==
    /\ pc = "fit_transform"
    /\ \/ /\ scaler' = Fit(Vals(X_train))
          /\ X_train_scaled' = Transform(scaler', Vals(X_train))
          /\ pc' = "transform"
          /\ log' = Append(log, Ev("fit_transform", "train", <<>>))
          /\ UNCHANGED <<env_vars, stdout, data_vars, X_test_scaled, train_vars,
                         select_vars, shape, eval>>
       \/ Raise("fit_transform", "")
       \/ /\ scaler' = Fit(Vals(X_train))
          /\ pc' = OnError("fit_transform")
          /\ log' = Append(log, Raised("fit_transform", ""))
          /\ UNCHANGED <<env_vars, stdout, data_vars, X_train_scaled, X_test_scaled,
                         train_vars, select_vars, shape, eval>>

\* X_test_scaled = scaler.transform(X_test); print("Feature engineering complete.")
TransformTest ==
    /\ pc = "transform"
    /\ \/ /\ X_test_scaled' = Transform(scaler, Vals(X_test))
          /\ scaler' = AfterTransform(scaler, Vals(X_test))
          /\ pc' = "models"
          /\ log' = Append(log, Ev("transform", "test", <<>>))
          /\ stdout' = Append(stdout, Out("engineered", "", Zero))
          /\ UNCHANGED <<env_vars, data_vars, X_train_scaled, train_vars,
                         select_vars, shape, eval>>
       \/ Raise("transform", "")

\* import ...; models = {...}; accuracies = {}; the loop starts at the first
\* item.  The dict is bound once its three constructors have returned: an
\* import or a constructor that raises leaves models unbound.
BuildModels ==
    /\ pc = "models"
    /\ \/ /\ models' = NewModels
          /\ accuracies' = <<>>
          /\ i' = 1
          /\ pc' = "fit"
          /\ UNCHANGED <<env_vars, log, stdout, data_vars, scale_vars, predictions,
                         select_vars, shape, eval>>
       \/ Raise("models", "")

\* model.fit(X_train_scaled, y_train)
FitModel ==
    /\ pc = "fit"
    /\ \/ /\ models' = [models EXCEPT ![i] = Fitted(@, X_train_scaled, Vals(y_train))]
          /\ pc' = "predict"
          /\ log' = Append(log, Ev("fit", models[i].name, <<>>))
          /\ UNCHANGED <<env_vars, stdout, data_vars, scale_vars, i, predictions,
                         accuracies, select_vars, shape, eval>>
       \/ Raise("fit", models[i].name)

\* predictions = model.predict(X_test_scaled): one label per test row.
Predict ==
    /\ pc = "predict"
    /\ \/ /\ \E out \in Returns(predict_call(models[i], X_test_scaled),
                                [1..Len(X_test_scaled) -> Labels]) :
                /\ predictions' = out
                /\ memo' = Remember(predict_call(models[i], X_test_scaled), out)
                /\ log' = Append(log, Ev("predict", models[i].name, out))
          /\ pc' = "score"
          /\ UNCHANGED <<bundled, rerun, prev, stdout, data_vars, scale_vars, models,
                         i, accuracies, select_vars, shape, eval>>
       \/ Raise("predict", models[i].name)

\* The statement after the loop body: the next item of models, or the cell
\* after the loop.
AfterBody(k) == IF k < Len(ModelNames) THEN "fit" ELSE "select"

\* accuracy = accuracy_score(y_test, predictions); accuracies[name] = accuracy;
\* print(f"{name} Accuracy: {accuracy:.4f}")
Score ==
    /\ pc = "score"
    /\ \/ LET accuracy == accuracy_score(Vals(y_test), predictions)
          IN  /\ accuracies' = SetItem(accuracies, models[i].name, accuracy)
              /\ stdout' = Append(stdout, Out("accuracy", models[i].name, accuracy))
              /\ log' = Append(log, Ev("record", models[i].name, <<>>))
              /\ pc' = AfterBody(i)
              /\ i' = IF i < Len(ModelNames) THEN i + 1 ELSE i
              /\ UNCHANGED <<env_vars, data_vars, scale_vars, models, predictions,
                             select_vars, shape, eval>>
       \/ Raise("score", models[i].name)

\* best_model_name = max(accuracies, key=accuracies.get);
\* best_model_accuracy = accuracies[best_model_name]; print(...)
Select ==
    /\ pc = "select"
    /\ best_model_name' = MaxKey(accuracies)
    /\ best_model_accuracy' = Get(accuracies, best_model_name')
    /\ stdout' = Append(stdout, Out("best", best_model_name', best_model_accuracy'))
    /\ log' = Append(log, Ev("select", "", <<>>))
    /\ pc' = "done"
    /\ UNCHANGED <<env_vars, data_vars, scale_vars, train_vars, shape, eval>>

----------------------------------------------------------------------------
(* The second run *)

\* What a finished run leaves to compare the next one with.
Outcome ==
    [bundled |-> bundled, X_train |-> X_train, X_test |-> X_test,
     y_train |-> y_train, y_test |-> y_test, scaler |-> scaler,
     accuracies |-> accuracies, best_model_name |-> best_model_name,
     best_model_accuracy |-> best_model_accuracy]

\* The bundled data at the second run: the same, or with the feature value
\* of one row changed.  The row is one the first run held out for testing:
\* a second run is compared with the first when its data, or at least its
\* train partition, is the same.
Reloads(data) ==
    {data} \cup { [data EXCEPT !.X[X_test[k].idx + 1] = v] :
                     k \in 1..Len(X_test), v \in FeatureValues }

\* The notebook is run again from a fresh kernel: every name is unbound,
\* the libraries are the same functions as before.
Rerun ==
    /\ pc = "done"
    /\ ~rerun
    /\ rerun' = TRUE
    /\ prev' = <<Outcome>>
    /\ bundled' \in Reloads(bundled)
    /\ pc' = "load"
    /\ log' = <<>>
    /\ stdout' = <<>>
    /\ df' = <<>>
    /\ X_train' = <<>> /\ X_test' = <<>> /\ y_train' = <<>> /\ y_test' = <<>>
    /\ scaler' = Unfitted /\ X_train_scaled' = <<>> /\ X_test_scaled' = <<>>
    /\ models' = <<>> /\ i' = 0 /\ predictions' = <<>> /\ accuracies' = <<>>
    /\ best_model_name' = "" /\ best_model_accuracy' = Zero
    /\ UNCHANGED <<memo, shape, eval>>

Next ==
    \/ Load
    \/ AssignTarget
    \/ ShowHead
    \/ MissingValues
    \/ Describe
    \/ Pairplot
    \/ Heatmap
    \/ Split
    \/ NewScaler
    \/ FitTransform
    \/ TransformTest
    \/ BuildModels
    \/ FitModel
    \/ Predict
    \/ Score
    \/ Select
    \/ Rerun

Spec == Init /\ [][Next]_vars

----------------------------------------------------------------------------
(* The split's size computation on its own, for row counts up to MaxSamples *)

Placeholder == [X |-> <<0>>, y |-> <<0>>]

SizeInit ==
    /\ bundled = Placeholder
    /\ memo = {}
    /\ rerun = FALSE
    /\ prev = <<>>
    /\ InitRun
    /\ shape \in { [NoShape EXCEPT !.n_samples = n, !.state = "in"] : n \in 1..MaxSamples }
    /\ eval = NoEval

\* _validate_shuffle_split(n_samples, test_size=0.2, train_size=None)
ValidateShuffleSplit ==
    /\ shape.state = "in"
    /\ shape' = [shape EXCEPT !.n_test = n_test_of(shape.n_samples),
                              !.n_train = n_train_of(shape.n_samples),
                              !.state = IF n_train_of(shape.n_samples) > 0
                                        THEN "out" ELSE "error"]
    /\ UNCHANGED <<env_vars, pc, log, stdout, data_vars, scale_vars, train_vars,
                   select_vars, eval>>

SizeNext == ValidateShuffleSplit

SizeSpec == SizeInit /\ [][SizeNext]_vars

----------------------------------------------------------------------------
(* The loop's scoring and the selection on their own: any test labels and  *)
(* any predictions of the three models, for up to MaxTestRows test rows    *)

EvalInit ==
    /\ bundled = Placeholder
    /\ memo = {}
    /\ rerun = FALSE
    /\ prev = <<>>
    /\ InitRun
    /\ shape = NoShape
    /\ \E n \in 1..MaxTestRows :
          eval \in { [NoEval EXCEPT !.y_test = yt, !.preds = ps, !.i = 1, !.pc = "score"] :
                        yt \in [1..n -> Labels],
                        ps \in [1..Len(ModelNames) -> [1..n -> Labels]] }

\* accuracy = accuracy_score(y_test, predictions); accuracies[name] = accuracy
EvalScore ==
    /\ eval.pc = "score"
    /\ LET name == ModelNames[eval.i]
           accuracy == accuracy_score(eval.y_test, eval.preds[eval.i])
       IN  eval' = [eval EXCEPT
                      !.accuracies = SetItem(@, name, accuracy),
                      !.i = IF eval.i < Len(ModelNames) THEN eval.i + 1 ELSE eval.i,
                      !.pc = IF AfterBody(eval.i) = "select" THEN "select" ELSE "score"]
    /\ UNCHANGED <<env_vars, pc, log, stdout, data_vars, scale_vars, train_vars,
                   select_vars, shape>>

\* best_model_name = max(accuracies, key=accuracies.get);
\* best_model_accuracy = accuracies[best_model_name]
EvalSelect ==
    /\ eval.pc = "select"
    /\ LET best == MaxKey(eval.accuracies)
       IN  eval' = [eval EXCEPT !.best_model_name = best,
                                !.best_model_accuracy = Get(eval.accuracies, best),
                                !.pc = "done"]
    /\ UNCHANGED <<env_vars, pc, log, stdout, data_vars, scale_vars, train_vars,
                   select_vars, shape>>

EvalNext ==
    \/ EvalScore
    \/ EvalSelect

EvalSpec == EvalInit /\ [][EvalNext]_vars

----------------------------------------------------------------------------
(* Properties *)

\* The declaration order of the three models, as the specification gives it.
DeclarationOrder == <<"Random Forest", "Logistic Regression", "Support Vector Machine">>

\* The accuracy the dict d holds under name; the names that attain d's maximum.
Recorded(d, name) == (CHOOSE e \in { d[k] : k \in 1..Len(d) } : e.name = name).acc
AttainsMax(d, name) ==
    \A k \in 1..Len(d) : Recorded(d, name).num * d[k].acc.den >= d[k].acc.num * Recorded(d, name).den

\* C1: once the selection has run, the three models each have one recorded
\* accuracy, the selected name attains the maximum of the three, no name
\* before it in the declaration order (Random Forest, Logistic Regression,
\* Support Vector Machine) attains it, and the reported accuracy is the one
\* recorded under the selected name.
C1_SelectsFirstMaximum ==
    eval.pc = "done" =>
        LET d == eval.accuracies
        IN  /\ Len(d) = 3
            /\ \A j \in 1..3 : d[j].name = DeclarationOrder[j]
            /\ \E j \in 1..3 :
                  /\ eval.best_model_name = DeclarationOrder[j]
                  /\ AttainsMax(d, DeclarationOrder[j])
                  /\ \A h \in 1..(j - 1) : ~AttainsMax(d, DeclarationOrder[h])
                  /\ eval.best_model_accuracy = d[j].acc

\* C1 witness: the selection has run on a record in which Logistic Regression
\* and Support Vector Machine tie for the maximum above Random Forest, and
\* Logistic Regression was selected.
C1_Witness ==
    /\ eval.pc = "done"
    /\ Len(eval.accuracies) = 3
    /\ eval.accuracies[2].acc = eval.accuracies[3].acc
    /\ RatLess(eval.accuracies[1].acc, eval.accuracies[2].acc)
    /\ eval.best_model_name = "Logistic Regression"

\* The test rows on which the k-th model's predictions equal the true labels.
Correct(k) == { j \in 1..Len(eval.y_test) : eval.preds[k][j] = eval.y_test[j] }

\* C4: every accuracy recorded so far is recorded under its model's name and
\* is the fraction (test rows predicted correctly) / (test rows), which lies
\* in [0, 1], whatever the predictions are.
C4_AccuracyIsShareOfCorrect ==
    \A k \in 1..Len(eval.accuracies) :
        LET e == eval.accuracies[k]
        IN  /\ e.name = DeclarationOrder[k]
            /\ e.acc.den > 0
            /\ e.acc.num * Len(eval.y_test) = Cardinality(Correct(k)) * e.acc.den
            /\ 0 <= e.acc.num /\ e.acc.num <= e.acc.den

\* C4 witness: all three accuracies are recorded, over more than one test
\* row, and one model is right on some rows and wrong on others.
C4_Witness ==
    /\ Len(eval.accuracies) = 3
    /\ Len(eval.y_test) > 1
    /\ \E k \in 1..3 : Correct(k) # {} /\ Correct(k) # 1..Len(eval.y_test)

\* C6: on 569 rows the size computation gives 114 test rows and 455 train
\* rows; on any row count that 5 does not divide the test size is n/5
\* rounded up, and the train size is always the remainder.
C6_SizesOf569 ==
    shape.state = "out" =>
        /\ shape.n_samples = 569 => shape.n_test = 114 /\ shape.n_train = 455
        /\ shape.n_samples % 5 # 0 =>
              /\ 5 * shape.n_test > shape.n_samples
              /\ 5 * (shape.n_test - 1) < shape.n_samples
        /\ shape.n_train = shape.n_samples - shape.n_test

\* C6 witness: the sizes have been computed for the canonical 569 rows.
C6_Witness ==
    /\ shape.state = "out"
    /\ shape.n_samples = CanonicalRows

----------------------------------------------------------------------------
(* Properties of the run *)

\* The split has returned in this run.
SplitDone == \E k \in 1..Len(log) : log[k].op = "split" /\ ~log[k].raised

Idx(a) == { a[k].idx : k \in 1..Len(a) }

\* C2: once the split has returned, the train and test partitions share no
\* row index, no index occurs twice in either, together they hold every row
\* of the dataset, and their sizes add up to the row count.
C2_PartitionsDisjointAndCovering ==
    SplitDone =>
        /\ Idx(X_train) \cap Idx(X_test) = {}
        /\ Idx(X_train) \cup Idx(X_test) = { df[k].idx : k \in 1..Len(df) }
        /\ Cardinality(Idx(X_train)) = Len(X_train)
        /\ Cardinality(Idx(X_test)) = Len(X_test)
        /\ Len(X_train) + Len(X_test) = Len(df)

\* C2 witness: the split has returned on a dataset of three rows and both
\* partitions hold rows.
C2_Witness ==
    /\ SplitDone
    /\ Len(df) = 3
    /\ Len(X_train) = 2
    /\ Len(X_test) = 1

\* Row k of the feature partition Xp and of the label partition yp are the
\* same dataset row, with that row's feature value and label.
SameRow(Xp, yp, k) ==
    /\ Xp[k].idx = yp[k].idx
    /\ Xp[k].val = df[Xp[k].idx + 1].x
    /\ yp[k].val = df[Xp[k].idx + 1].target

\* C8: once the split has returned, the feature and label partitions have
\* equal lengths and, position by position, refer to the same dataset row
\* and carry that row's feature value and label, in train and in test.
C8_FeaturesAndLabelsAligned ==
    SplitDone =>
        /\ Len(X_train) = Len(y_train)
        /\ Len(X_test) = Len(y_test)
        /\ \A k \in 1..Len(X_train) : SameRow(X_train, y_train, k)
        /\ \A k \in 1..Len(X_test) : SameRow(X_test, y_test, k)

\* C8 witness: the split has returned a train partition of two rows that
\* are out of their dataset order and carry different labels.
C8_Witness ==
    /\ SplitDone
    /\ Len(y_train) = 2
    /\ X_train[1].idx > X_train[2].idx
    /\ y_train[1].val # y_train[2].val

\* How many times the call op has returned in this run.
Count(op) == Cardinality({ k \in 1..Len(log) : log[k].op = op /\ ~log[k].raised })

TrainSum   == Sum(Vals(X_train))
TrainSumSq == Sum([k \in 1..Len(X_train) |-> X_train[k].val * X_train[k].val])

\* The scaler's parameters are the mean and the population variance of the
\* train partition's feature values.
FittedOnTrain ==
    LET n == Len(X_train)
        S == TrainSum
        Q == TrainSumSq
    IN  /\ scaler.mean_.num * n = S * scaler.mean_.den
        /\ scaler.var_.num * n * n = (n * Q - S * S) * scaler.var_.den

\* C3: fit_transform returns at most once in a run; the scaler is fitted
\* once it has returned, and otherwise only when that call was the one that
\* raised; whenever it is fitted, before and after the test partition is
\* transformed, its parameters are those of the train partition; and a
\* second run with the same train partition has the parameters of the first
\* run whatever its test rows hold.
C3_ScalerFittedOnTrainOnly ==
    LET fits == Count("fit_transform")
    IN  /\ fits <= 1
        /\ fits = 1 => scaler.fitted
        /\ (scaler.fitted /\ fits = 0) => log[Len(log)] = Raised("fit_transform", "")
        /\ scaler.fitted => FittedOnTrain
        /\ (scaler.fitted /\ prev # <<>> /\ prev[1].X_train = X_train) =>
                /\ scaler.mean_ = prev[1].scaler.mean_
                /\ scaler.var_ = prev[1].scaler.var_
                /\ scaler.scale_sq = prev[1].scaler.scale_sq

\* C3 witness: in the second run the test partition has been transformed;
\* the train partition is that of the first run, the test partition holds a
\* different feature value, its values differ from the train mean, and the
\* parameters are those of the first run.
C3_Witness ==
    /\ prev # <<>>
    /\ Count("transform") = 1
    /\ prev[1].X_train = X_train
    /\ Vals(prev[1].X_test) # Vals(X_test)
    /\ Idx(prev[1].X_test) = Idx(X_test)
    /\ scaler.mean_ = prev[1].scaler.mean_
    /\ \E k \in 1..Len(X_test) : X_test[k].val * scaler.mean_.den # scaler.mean_.num

\* C5: a second complete run on the same bundled dataset ends with the
\* partitions, the scaler parameters, the recorded accuracies and the
\* selected model of the first run.
C5_SameSeedSameRun ==
    (pc = "done" /\ prev # <<>> /\ prev[1].bundled = bundled) =>
        /\ X_train = prev[1].X_train /\ X_test = prev[1].X_test
        /\ y_train = prev[1].y_train /\ y_test = prev[1].y_test
        /\ scaler = prev[1].scaler
        /\ accuracies = prev[1].accuracies
        /\ best_model_name = prev[1].best_model_name
        /\ best_model_accuracy = prev[1].best_model_accuracy

\* C5 witness: a second run on the same three-row dataset is complete.
C5_Witness ==
    /\ pc = "done"
    /\ prev # <<>>
    /\ prev[1].bundled = bundled
    /\ Len(bundled.X) = 3

\* The calls that have raised in this run, by position in the log.
RaisedAt == { k \in 1..Len(log) : log[k].raised }

HasEntry(d, name) == \E k \in 1..Len(d) : d[k].name = name

BestReported == \E k \in 1..Len(stdout) : stdout[k].kind = "best"

\* C7: a call that raised is the last thing the run did: nothing is logged
\* after it, the run is in its failed state, the failing model has no
\* recorded accuracy, only the models scored before it have one, and no
\* model is selected or reported.  A run is in its failed state only so.
C7_FailureIsFatal ==
    /\ \A k \in RaisedAt :
          /\ k = Len(log)
          /\ pc = "failed"
          /\ ~HasEntry(accuracies, log[k].name)
          /\ Len(accuracies) = Count("record")
          /\ best_model_name = ""
          /\ ~BestReported
    /\ pc = "failed" => RaisedAt # {}

\* C7 witness: Logistic Regression's fit has raised after Random Forest was
\* scored; the run has failed with that one accuracy recorded.
C7_Witness ==
    /\ pc = "failed"
    /\ log[Len(log)] = Raised("fit", "Logistic Regression")
    /\ Len(accuracies) = 1
    /\ accuracies[1].name = "Random Forest"

\* The scaled train column: the sum of its values' numerators, the sum of
\* their squares, and whether its values share one denominator.
ScaledSum   == Sum([k \in 1..Len(X_train_scaled) |-> X_train_scaled[k].num])
ScaledSumSq == Sum([k \in 1..Len(X_train_scaled) |-> X_train_scaled[k].num * X_train_scaled[k].num])
OneDenominator ==
    \A k \in 1..Len(X_train_scaled) : X_train_scaled[k].den_sq = X_train_scaled[1].den_sq

\* The scaled train column has mean 0; it has variance 1, that is
\* (m * sum(num^2) - sum(num)^2) / (m^2 * den_sq) = 1.
ScaledMeanZero == OneDenominator /\ ScaledSum = 0
ScaledStdOne ==
    LET m == Len(X_train_scaled)
        r == X_train_scaled[1].den_sq
    IN  /\ OneDenominator
        /\ (m * ScaledSumSq - ScaledSum * ScaledSum) * r.den = m * m * r.num
\* The fitted scaler counts the train column as constant and divides by 1.
ConstantMask == is_constant_feature(scaler.var_, scaler.mean_, Len(X_train))

\* C9: once the train partition is scaled, the scaled column has one value
\* per train row and mean 0, and, for a column the scaler does not count as
\* constant (every column of the shipped table), standard deviation 1.
C9_ScaledTrainStandardised ==
    Count("fit_transform") = 1 =>
        /\ Len(X_train_scaled) = Len(X_train)
        /\ ScaledMeanZero
        /\ ~ConstantMask => ScaledStdOne

\* C9 witness: a train partition of two different values has been scaled
\* by its own standard deviation to mean 0 and standard deviation 1.
C9_Witness ==
    /\ Count("fit_transform") = 1
    /\ Len(X_train) = 2
    /\ X_train[1].val # X_train[2].val
    /\ ~ConstantMask
    /\ scaler.scale_sq = scaler.var_
    /\ ScaledMeanZero
    /\ ScaledStdOne

\* The calls of the training and selection cells that have returned, in order.
IsTrainingCall(e) == e.op \in {"fit", "predict", "record", "select"} /\ ~e.raised
TrainingCalls == SelectSeq(log, IsTrainingCall)

\* The order the specification gives: each model fitted, queried and scored
\* in turn, then the selection.
ExpectedCalls ==
    << <<"fit", "Random Forest">>, <<"predict", "Random Forest">>, <<"record", "Random Forest">>,
       <<"fit", "Logistic Regression">>, <<"predict", "Logistic Regression">>,
       <<"record", "Logistic Regression">>,
       <<"fit", "Support Vector Machine">>, <<"predict", "Support Vector Machine">>,
       <<"record", "Support Vector Machine">>,
       <<"select", "">> >>

\* C10: the calls of the training and selection cells so far are a prefix
\* of fit, predict, record for Random Forest, then Logistic Regression, then
\* Support Vector Machine, then the selection; every model fitted so far was
\* fitted on the scaled train data and the train labels; every prediction is
\* one label per scaled test row; the accuracies recorded so far are those of
\* the models scored so far, in that order; and the selection runs on
\* exactly three recorded accuracies.
C10_TrainingOrder ==
    LET calls == TrainingCalls
    IN  /\ Len(calls) <= Len(ExpectedCalls)
        /\ \A k \in 1..Len(calls) :
              /\ <<calls[k].op, calls[k].name>> = ExpectedCalls[k]
              /\ calls[k].op = "predict" => Len(calls[k].out) = Len(X_test_scaled)
        /\ \A k \in 1..Len(models) :
              models[k].fitted => models[k].fit_X = X_train_scaled /\ models[k].fit_y = Vals(y_train)
        /\ Len(accuracies) = Count("record")
        /\ \A k \in 1..Len(accuracies) : accuracies[k].name = DeclarationOrder[k]
        /\ (pc = "select" \/ Count("select") = 1) => Len(accuracies) = 3

\* C10 witness: the selection has run after all nine training calls.
C10_Witness ==
    /\ Len(TrainingCalls) = 10
    /\ pc = "done"
    /\ Len(accuracies) = 3

====
